---- MODULE Spec2Model ----
(***************************************************************************)
(* Model of backend/app.py: the AI Trading Insights backend.               *)
(*                                                                         *)
(*   fetch_headlines()        news API call and article normalisation      *)
(*   analyze_with_claude(h)   model call, fence unwrapping, JSON parsing   *)
(*   analyze()                the POST /analyze route composing the two    *)
(*                                                                         *)
(* Texts are sequences of one-character strings, so that str.split,        *)
(* str.strip and json.loads are modelled by what they do to characters.    *)
(* Line 124 of app.py is not a well-formed string literal as written; the  *)
(* model reads it as the model identifier it is meant to be, an opaque     *)
(* argument of the outbound call that plays no part in any result.         *)
(***************************************************************************)
EXTENDS Integers, Sequences, FiniteSets, TLC

(***************************************************************************)
(* Python values                                                           *)
(***************************************************************************)
\* Python's None / JSON null in a place where a string is expected.
None == "<None>"
\* A key that is not present in a dict.
Absent == "<absent>"

\* Parsed JSON values, one record shape for every type:
\*   t: "arr" | "obj" | "str" | "num" | "null"
\*   s: characters of a string or a number
\*   e: elements of an array, or the member values of an object
\*   k: member keys of an object (parallel to e)
JNull == [t |-> "null", s |-> <<>>, e |-> <<>>, k |-> <<>>]
JStr(cs) == [t |-> "str", s |-> cs, e |-> <<>>, k |-> <<>>]
JNum(cs) == [t |-> "num", s |-> cs, e |-> <<>>, k |-> <<>>]
JArr(es) == [t |-> "arr", s |-> <<>>, e |-> es, k |-> <<>>]
JObj(ks, vs) == [t |-> "obj", s |-> <<>>, e |-> vs, k |-> ks]

Min(a, b) == IF a < b THEN a ELSE b

(***************************************************************************)
(* str methods used by analyze_with_claude                                 *)
(***************************************************************************)
QUOTE == "\""
NEWLINE == "\n"
\* The backtick character (written by name).
BACKTICK == "<backtick>"
FENCE == <<BACKTICK, BACKTICK, BACKTICK>>
FENCE_JSON == FENCE \o <<"j", "s", "o", "n">>

IsSpace(c) == c \in {" ", NEWLINE}

\* Whether sep occurs in s at position i.
StartsAt(s, sep, i) ==
    /\ i >= 1
    /\ i + Len(sep) - 1 <= Len(s)
    /\ SubSeq(s, i, i + Len(sep) - 1) = sep

\* str.find from position i: the least position >= i where sep occurs, or 0.
RECURSIVE Find(_, _, _)
Find(s, sep, i) ==
    IF i + Len(sep) - 1 > Len(s) THEN 0
    ELSE IF StartsAt(s, sep, i) THEN i
    ELSE Find(s, sep, i + 1)

\* sep in s
Contains(s, sep) == Find(s, sep, 1) # 0

\* s.split(sep): the pieces between the non-overlapping occurrences of sep,
\* scanning left to right.
RECURSIVE Split(_, _)
Split(s, sep) ==
    LET p == Find(s, sep, 1)
    IN  IF p = 0 THEN <<s>>
        ELSE <<SubSeq(s, 1, p - 1)>> \o Split(SubSeq(s, p + Len(sep), Len(s)), sep)

RECURSIVE LStrip(_)
LStrip(s) == IF s # <<>> /\ IsSpace(Head(s)) THEN LStrip(Tail(s)) ELSE s

RECURSIVE RStrip(_)
RStrip(s) ==
    IF s # <<>> /\ IsSpace(s[Len(s)]) THEN RStrip(SubSeq(s, 1, Len(s) - 1)) ELSE s

\* s.strip()
Strip(s) == RStrip(LStrip(s))

(***************************************************************************)
(* json.loads                                                              *)
(***************************************************************************)
\* A scan result: ok, the value, the position after it, the decode message.
Scanned(v, i) == [ok |-> TRUE, v |-> v, i |-> i, msg |-> ""]
DecodeError(m) == [ok |-> FALSE, v |-> JNull, i |-> 0, msg |-> m]

RECURSIVE SkipWs(_, _)
SkipWs(s, i) == IF i <= Len(s) /\ IsSpace(s[i]) THEN SkipWs(s, i + 1) ELSE i

\* The character at i, or "" past the end.
At(s, i) == IF i >= 1 /\ i <= Len(s) THEN s[i] ELSE ""

\* A string whose opening quote is at i.
ParseString(s, i) ==
    LET j == Find(s, <<QUOTE>>, i + 1)
    IN  IF j = 0 THEN DecodeError("Unterminated string starting at")
        ELSE IF \E p \in (i + 1)..(j - 1) : s[p] = NEWLINE
             THEN DecodeError("Invalid control character at")
        ELSE Scanned(JStr(SubSeq(s, i + 1, j - 1)), j + 1)

RECURSIVE DigitsEnd(_, _)
DigitsEnd(s, i) == IF At(s, i) = "1" THEN DigitsEnd(s, i + 1) ELSE i

\* dict semantics for a repeated key: the later value replaces the earlier
\* one, in the place of the earlier one.
PutMember(ks, vs, key, val) ==
    IF \E p \in 1..Len(ks) : ks[p] = key
    THEN LET p == CHOOSE q \in 1..Len(ks) : ks[q] = key
         IN  [ks |-> ks, vs |-> [vs EXCEPT ![p] = val]]
    ELSE [ks |-> Append(ks, key), vs |-> Append(vs, val)]

RECURSIVE ParseValue(_, _)
RECURSIVE ParseElems(_, _, _)
RECURSIVE ParseMembers(_, _, _, _)

\* The elements of an array from position i (after "[" or ","), acc so far.
ParseElems(s, i, acc) ==
    LET r == ParseValue(s, i)
    IN  IF ~r.ok THEN r
        ELSE LET j == SkipWs(s, r.i)
             IN  IF At(s, j) = "]" THEN Scanned(JArr(Append(acc, r.v)), j + 1)
                 ELSE IF At(s, j) = ","
                      THEN ParseElems(s, SkipWs(s, j + 1), Append(acc, r.v))
                 ELSE DecodeError("Expecting ',' delimiter")

\* The members of an object from position i, where a key's quote must be.
ParseMembers(s, i, ks, vs) ==
    IF At(s, i) # QUOTE
    THEN DecodeError("Expecting property name enclosed in double quotes")
    ELSE
    LET key == ParseString(s, i)
    IN  IF ~key.ok THEN key
        ELSE LET c == SkipWs(s, key.i)
             IN  IF At(s, c) # ":" THEN DecodeError("Expecting ':' delimiter")
                 ELSE LET r == ParseValue(s, SkipWs(s, c + 1))
                      IN  IF ~r.ok THEN r
                          ELSE LET m == PutMember(ks, vs, key.v.s, r.v)
                                   j == SkipWs(s, r.i)
                               IN  IF At(s, j) = "}"
                                   THEN Scanned(JObj(m.ks, m.vs), j + 1)
                                   ELSE IF At(s, j) = ","
                                        THEN ParseMembers(s, SkipWs(s, j + 1), m.ks, m.vs)
                                   ELSE DecodeError("Expecting ',' delimiter")

\* scan_once: the JSON value that starts at position i.
ParseValue(s, i) ==
    LET c == At(s, i)
    IN  IF c = QUOTE THEN ParseString(s, i)
        ELSE IF c = "[" THEN
            LET j == SkipWs(s, i + 1)
            IN  IF At(s, j) = "]" THEN Scanned(JArr(<<>>), j + 1)
                ELSE ParseElems(s, j, <<>>)
        ELSE IF c = "{" THEN
            LET j == SkipWs(s, i + 1)
            IN  IF At(s, j) = "}" THEN Scanned(JObj(<<>>, <<>>), j + 1)
                ELSE ParseMembers(s, j, <<>>, <<>>)
        ELSE IF c = "1" THEN
            LET j == DigitsEnd(s, i) IN Scanned(JNum(SubSeq(s, i, j - 1)), j)
        ELSE IF StartsAt(s, <<"n", "u", "l", "l">>, i) THEN Scanned(JNull, i + 4)
        ELSE DecodeError("Expecting value")

\* json.loads(s): one value, whitespace allowed around it, nothing after it.
json_loads(s) ==
    LET r == ParseValue(s, SkipWs(s, 1))
    IN  IF ~r.ok THEN r
        ELSE IF SkipWs(s, r.i) # Len(s) + 1 THEN DecodeError("Extra data")
        ELSE r

(***************************************************************************)
(* Outcomes of a call: a returned value or a raised exception               *)
(***************************************************************************)
\* analyze_with_claude / analyze returned v.
Returned(v) == [exc |-> "", value |-> v, status_code |-> 0, detail |-> <<>>]
\* raise HTTPException(status_code=code, detail=prefix + message)
HTTPException(code, prefix, message) ==
    [exc |-> "HTTPException", value |-> JNull, status_code |-> code,
     detail |-> <<prefix, message>>]
\* Any other exception, of the given type.
Raised(type, message) ==
    [exc |-> type, value |-> JNull, status_code |-> 0, detail |-> <<message>>]

(***************************************************************************)
(* analyze_with_claude                                                     *)
(***************************************************************************)
\* The fixed sample insight returned when no model credential is configured.
SampleInsights ==
    JArr(<<JObj(<< <<"headline">>, <<"article_url">>, <<"stocks">>,
                   <<"recommendation">>, <<"rationale">>, <<"summary">> >>,
                << JStr(<<"Apple Reports Record Q4 Earnings, Stock Surges">>),
                   JStr(<<"https://example.com/apple-earnings">>),
                   JArr(<<JStr(<<"AAPL">>)>>),
                   JStr(<<"Buy AAPL">>),
                   JStr(<<"Strong earnings beat suggests continued growth momentum and potential upside.">>),
                   JStr(<<"Apple Inc. announced record-breaking quarterly earnings">>) >>)>>)

\* return insights[:5]
MaxInsights == 5

\* What anthropic.messages.create can do: raise, or return a message whose
\* content is a list of blocks; a block has a text attribute or not, and
\* repr is what str(block) gives.
ApiError == [raises |-> TRUE, content |-> <<>>]
ApiMessage(blocks) == [raises |-> FALSE, content |-> blocks]
TextBlock(t) == [hasText |-> TRUE, text |-> t, repr |-> <<"T", "e", "x", "t", "B", "l", "o", "c", "k", "(", ")">>]
OtherBlock == [hasText |-> FALSE, text |-> <<>>, repr |-> <<"T", "o", "o", "l", "U", "s", "e", "B", "l", "o", "c", "k", "(", ")">>]

\* Lines 143-146: unwrap a fenced payload.
ExtractJson(response_text) ==
    IF Contains(response_text, FENCE_JSON)
    THEN Strip(Split(Split(response_text, FENCE_JSON)[2], FENCE)[1])
    ELSE IF Contains(response_text, FENCE)
    THEN Strip(Split(Split(response_text, FENCE)[2], FENCE)[1])
    ELSE response_text

\* SliceInsights returning everything it was given.
SliceInsights_NoCap(insights) ==
    IF insights.t \in {"arr", "str"} THEN Returned(insights)
    ELSE Raised("TypeError", "object is not subscriptable")

\* insights[:5] on whatever json.loads gave (after the dict wrapping).
SliceInsights(insights) ==
    IF insights.t = "arr"
    THEN Returned(JArr(SubSeq(insights.e, 1, Min(MaxInsights, Len(insights.e)))))
    ELSE IF insights.t = "str"
    THEN Returned(JStr(SubSeq(insights.s, 1, Min(MaxInsights, Len(insights.s)))))
    ELSE Raised("TypeError", "object is not subscriptable")

\* Lines 148-154, without the handlers.
ParseInsights(response_text) ==
    LET r == json_loads(response_text)
    IN  IF ~r.ok THEN Raised("JSONDecodeError", r.msg)
        ELSE SliceInsights(IF r.v.t = "obj" THEN JArr(<<r.v>>) ELSE r.v)

\* Lines 123-154, without the handlers: the body of the try block, given
\* what messages.create did.
AnalyzeBody(api) ==
    IF api.raises THEN Raised("APIError", "model call failed")
    ELSE IF api.content = <<>> THEN Raised("IndexError", "list index out of range")
    ELSE LET block == api.content[1]
             response_text == IF block.hasText THEN Strip(block.text)
                              ELSE Strip(block.repr)
         IN  ParseInsights(ExtractJson(response_text))

\* Lines 156-159: the two handlers.
AnalyzeHandlers(o) ==
    IF o.exc = "" THEN o
    ELSE IF o.exc = "JSONDecodeError"
    THEN HTTPException(500, "Failed to parse Claude response as JSON: ", o.detail[1])
    ELSE HTTPException(500, "Claude analysis failed: ", o.detail[1])

\* analyze_with_claude in live mode (a credential is configured), given
\* what messages.create did.
analyze_live(api) == AnalyzeHandlers(AnalyzeBody(api))

\* RouteHandlers without the "except HTTPException: raise" clause.
RouteHandlers_Rewrap(o) ==
    IF o.exc = "" THEN o
    ELSE HTTPException(500, "Analysis failed: ", o.detail[1])

\* Lines 186-189: the handlers of the route.
RouteHandlers(o) ==
    IF o.exc = "" \/ o.exc = "HTTPException" THEN o
    ELSE HTTPException(500, "Analysis failed: ", o.detail[1])

\* The HTTP response the framework sends for an outcome of the route.
HttpResponse(o) ==
    IF o.exc = ""
    THEN [status |-> 200, body |-> o.value, detail |-> <<>>]
    ELSE [status |-> o.status_code, body |-> JNull, detail |-> o.detail]

(***************************************************************************)
(* fetch_headlines                                                         *)
(***************************************************************************)
\* The fixed sample headlines returned when NEWS_API_KEY is not configured.
SampleHeadlines ==
    << [title |-> "Apple Reports Record Q4 Earnings, Stock Surges",
        description |-> "Apple Inc. announced record-breaking quarterly earnings, beating analyst expectations by 15%.",
        url |-> "https://example.com/apple-earnings"],
       [title |-> "Federal Reserve Hints at Rate Cuts in 2024",
        description |-> "The Fed signals potential interest rate reductions, sparking market optimism.",
        url |-> "https://example.com/fed-rates"] >>

\* data.get("articles", [])[:15]
PageSize == 15

FetchReturned(hs) == [exc |-> "", headlines |-> hs, status_code |-> 0, detail |-> <<>>]
FetchRaised(type, message) ==
    [exc |-> type, headlines |-> <<>>, status_code |-> 0, detail |-> <<message>>]
FetchHTTPException(code, prefix, message) ==
    [exc |-> "HTTPException", headlines |-> <<>>, status_code |-> code,
     detail |-> <<prefix, message>>]

\* What requests.get can do: raise (kind "ConnectionError" or "Timeout"), or
\* return a response with a status and a body. A body is not JSON, JSON that
\* is not an object, or an object whose "articles" is absent, null or a
\* list. An article is an object with title, description, url (each a
\* string, None for null, Absent for a missing key), or not an object.
NetworkFailure(kind) ==
    [kind |-> kind, status |-> 0, body |-> "", articlesIs |-> "", articles |-> <<>>]
NewsResponse(status, body, articlesIs, articles) ==
    [kind |-> "response", status |-> status, body |-> body,
     articlesIs |-> articlesIs, articles |-> articles]
Article(title, description, url) ==
    [isDict |-> TRUE, title |-> title, description |-> description, url |-> url]
NotAnObject ==
    [isDict |-> FALSE, title |-> Absent, description |-> Absent, url |-> Absent]

\* Python truthiness of d.get(key) for a string-valued key.
Truthy(x) == x \notin {Absent, None, ""}
\* d.get(key, default): the default only when the key is missing.
Get(x, default) == IF x = Absent THEN default ELSE x

\* Lines 73-82: the loop over the articles, headlines so far.
RECURSIVE CollectHeadlines(_, _)
CollectHeadlines(articles, headlines) ==
    IF articles = <<>> THEN FetchReturned(headlines)
    ELSE LET article == Head(articles)
         IN  IF ~article.isDict
             THEN FetchRaised("AttributeError", "object has no attribute 'get'")
             ELSE IF Truthy(article.title) /\ Truthy(article.url)
             THEN CollectHeadlines(Tail(articles),
                      Append(headlines,
                             [title |-> Get(article.title, ""),
                              description |-> Get(article.description, ""),
                              url |-> Get(article.url, "")]))
             ELSE CollectHeadlines(Tail(articles), headlines)

\* FirstPage without the slice.
FirstPage_NoLimit(articles) == articles

\* data.get("articles", [])[:15]
FirstPage(articles) == SubSeq(articles, 1, Min(PageSize, Len(articles)))

\* FetchBody without response.raise_for_status().
FetchBody_NoStatusCheck(net) ==
    IF net.kind # "response" THEN FetchRaised(net.kind, "request failed")
    ELSE IF net.body = "notjson" THEN FetchRaised("JSONDecodeError", "Expecting value")
    ELSE IF net.body = "notdict"
    THEN FetchRaised("AttributeError", "object has no attribute 'get'")
    ELSE IF net.articlesIs = "null"
    THEN FetchRaised("TypeError", "object is not subscriptable")
    ELSE CollectHeadlines(
             FirstPage(IF net.articlesIs = "absent" THEN <<>> ELSE net.articles),
             <<>>)

\* Lines 66-82: the body of the try block, given what requests.get did.
FetchBody(net) ==
    IF net.kind # "response" THEN FetchRaised(net.kind, "request failed")
    ELSE IF net.status >= 400 /\ net.status < 600
    THEN FetchRaised("HTTPError", "error status for url")
    ELSE IF net.body = "notjson" THEN FetchRaised("JSONDecodeError", "Expecting value")
    ELSE IF net.body = "notdict"
    THEN FetchRaised("AttributeError", "object has no attribute 'get'")
    ELSE IF net.articlesIs = "null"
    THEN FetchRaised("TypeError", "object is not subscriptable")
    ELSE CollectHeadlines(
             FirstPage(IF net.articlesIs = "absent" THEN <<>> ELSE net.articles),
             <<>>)

\* Lines 83-84: the handler.
FetchHandlers(o) ==
    IF o.exc = "" THEN o
    ELSE FetchHTTPException(500, "Failed to fetch headlines: ", o.detail[1])

\* fetch_headlines in live mode (NEWS_API_KEY is set), given what
\* requests.get did.
fetch_live(net) == FetchHandlers(FetchBody(net))

\* The outcome of the route when fetch_headlines raised: lines 186-189.
FetchFailure(f) ==
    RouteHandlers([exc |-> f.exc, value |-> JNull, status_code |-> f.status_code,
                   detail |-> f.detail])

(***************************************************************************)
(* Inputs: what the model API can answer                                   *)
(***************************************************************************)
\* JSON text as a model writes it: json.dumps layout, ", " and ": ".
RECURSIVE Render(_)
RECURSIVE RenderElems(_)
RECURSIVE RenderMembers(_, _)
Render(v) ==
    IF v.t = "null" THEN <<"n", "u", "l", "l">>
    ELSE IF v.t = "num" THEN v.s
    ELSE IF v.t = "str" THEN <<QUOTE>> \o v.s \o <<QUOTE>>
    ELSE IF v.t = "arr" THEN <<"[">> \o RenderElems(v.e) \o <<"]">>
    ELSE <<"{">> \o RenderMembers(v.k, v.e) \o <<"}">>
RenderElems(es) ==
    IF es = <<>> THEN <<>>
    ELSE IF Len(es) = 1 THEN Render(es[1])
    ELSE Render(es[1]) \o <<",", " ">> \o RenderElems(Tail(es))
RenderMembers(ks, vs) ==
    IF ks = <<>> THEN <<>>
    ELSE LET m == <<QUOTE>> \o ks[1] \o <<QUOTE, ":", " ">> \o Render(vs[1])
         IN  IF Len(ks) = 1 THEN m
             ELSE m \o <<",", " ">> \o RenderMembers(Tail(ks), Tail(vs))

\* The three presentations of a payload in the response text.
Forms == {"raw", "json_fence", "generic_fence"}
Wrap(form, payload) ==
    IF form = "json_fence" THEN FENCE_JSON \o <<NEWLINE>> \o payload \o <<NEWLINE>> \o FENCE
    ELSE IF form = "generic_fence" THEN FENCE \o <<NEWLINE>> \o payload \o <<NEWLINE>> \o FENCE
    ELSE payload

\* Insight objects, cut down to one member; the last one quotes a fenced
\* snippet in its text.
InsightA == JObj(<< <<"s">> >>, << JStr(<<"a">>) >>)
InsightB == JObj(<< <<"s">> >>, << JStr(<<"o", "n">>) >>)
InsightFenced == JObj(<< <<"s">> >>, << JStr(FENCE \o <<"[", "]">> \o FENCE) >>)
InsightKinds == {InsightA, InsightB}

\* The longest array of insights a model response carries.
MaxK == 6
\* The longest response text made of arbitrary characters.
MaxRawLen == 3

SeqsUpTo(S, n) == UNION {[1..m -> S] : m \in 0..n}

\* JSON values a model may answer with.
PayloadValues ==
    {JArr(es) : es \in SeqsUpTo(InsightKinds, MaxK)}
    \cup {InsightA, InsightFenced, JArr(<<InsightFenced>>), JArr(<<InsightA, InsightFenced>>),
          JStr(<<>>), JStr(<<"a", "j", "s", "o", "n", "1", "1">>), JStr(FENCE),
          JNum(<<"1">>), JNull,
          JArr(<<JNum(<<"1", "1">>), JStr(<<"a">>), JNull, JArr(<<InsightA>>), JObj(<<>>, <<>>)>>),
          JObj(<< <<"a">>, <<"s">> >>, << JArr(<<>>), JNum(<<"1">>) >>)}

RawAlphabet == {"[", "]", "{", "}", QUOTE, "1", ",", " ", "a"}

\* Texts that are not rendered values: arbitrary short texts, and fences
\* that are unclosed, doubled or preceded by prose.
OddTexts ==
    { FENCE, FENCE \o FENCE, FENCE_JSON, FENCE_JSON \o <<"[", "]">>,
      <<"a", " ">> \o FENCE_JSON \o <<NEWLINE, "[", "]", NEWLINE>> \o FENCE \o <<" ", "a">>,
      FENCE \o <<"[", "]">> \o FENCE \o FENCE_JSON \o <<"1">> \o FENCE,
      <<BACKTICK>> \o FENCE \o <<"j", "s", "o", "n">>,
      <<"[", "1", ",", "]">>, <<"{", QUOTE, "a", QUOTE, ":", "1", ",", QUOTE, "a", QUOTE, ":", "[", "]", "}">>,
      <<QUOTE, "a", NEWLINE, QUOTE>>, <<"n", "u", "l", "l">>, <<"n", "u", "l">> }

\* An input of the analyzer: a payload text, and the value it renders if it
\* was rendered from one.
AnalyzerInputs ==
    {[rendered |-> TRUE, value |-> v, text |-> Render(v)] : v \in PayloadValues}
    \cup {[rendered |-> FALSE, value |-> JNull, text |-> t] :
              t \in SeqsUpTo(RawAlphabet, MaxRawLen) \cup OddTexts}

\* Model answers used by the service: failures, odd contents, and payloads
\* in each presentation.
ServiceApiOutcomes ==
    {ApiError, ApiMessage(<<>>), ApiMessage(<<OtherBlock>>)}
    \cup {ApiMessage(<<TextBlock(t)>>) :
            t \in {Render(JArr(<<InsightA, InsightB>>)),
                   Wrap("json_fence", Render(JArr([i \in 1..(MaxInsights + 1) |-> InsightA]))),
                   Wrap("generic_fence", Render(InsightB)),
                   Render(JStr(<<"a", "j", "s", "o", "n", "1", "1">>)),
                   Render(JNum(<<"1">>)),
                   Render(JArr(<<>>)),
                   <<"a">>}}

(***************************************************************************)
(* Inputs: what the news API can answer                                    *)
(***************************************************************************)
ArticleKinds ==
    { Article("t1", "d1", "u1"), Article("t2", None, "u2"), Article("t2", Absent, "u1"),
      Article("", "d1", "u1"), Article("t1", "d1", Absent), Article(None, None, None),
      NotAnObject }
PadKinds == { Article("t1", "d1", "u1"), Article("", "d1", "u1") }

\* The longest article list made of arbitrary articles.
MaxShort == 2
\* The longest run of equal articles inside a long list.
MaxPad == 15

Repeat(x, n) == [i \in 1..n |-> x]

ArticleLists ==
    SeqsUpTo(ArticleKinds, MaxShort)
    \cup {<<h>> \o Repeat(p, n) \o t :
            h \in ArticleKinds, p \in PadKinds, n \in 0..MaxPad,
            t \in SeqsUpTo(ArticleKinds, MaxShort)}

NewsOutcomes ==
    {NetworkFailure("ConnectionError"), NetworkFailure("Timeout"),
     NewsResponse(404, "dict", "absent", <<>>), NewsResponse(500, "notjson", "absent", <<>>),
     NewsResponse(200, "notjson", "absent", <<>>), NewsResponse(200, "notdict", "absent", <<>>),
     NewsResponse(200, "dict", "absent", <<>>), NewsResponse(200, "dict", "null", <<>>)}
    \cup {NewsResponse(200, "dict", "list", l) : l \in ArticleLists}

ServiceNewsOutcomes ==
    {NetworkFailure("ConnectionError"), NetworkFailure("Timeout"),
     NewsResponse(404, "dict", "absent", <<>>), NewsResponse(500, "notjson", "absent", <<>>),
     NewsResponse(200, "notjson", "absent", <<>>), NewsResponse(200, "dict", "null", <<>>),
     NewsResponse(500, "dict", "list", <<Article("t1", "d1", "u1")>>)}
    \cup {NewsResponse(200, "dict", "list", l) :
            l \in {<<>>, <<Article("", "d1", "u1")>>, <<Article("t1", "d1", "u1")>>,
                   <<Article("t2", None, "u2"), Article("t1", "d1", Absent),
                     Article("t1", "d1", "u1")>>}}

(***************************************************************************)
(* State                                                                   *)
(***************************************************************************)
\* Concurrent POST /analyze requests.
NumRequests == 2
Requests == 1..NumRequests

VARIABLES
    NEWS_API_KEY,   \* module global, line 33: "" when unset
    api_key,        \* anthropic.api_key, line 30: "" when unset
    pc,             \* per request: "idle", "news_wait", "model_wait", "done"
    headlines,      \* per request: what fetch_headlines returned
    fetched,        \* per request: "" (not yet), "returned", "raised"
    newsReply,      \* per request: what requests.get did: "", a failure kind, or a status
    newsCalls,      \* per request: requests.get calls issued
    analyzerCalls,  \* per request: analyze_with_claude invocations
    modelCalls,     \* per request: anthropic.messages.create calls issued
    response,       \* per request: the HTTP response sent
    f_key,          \* fetch_headlines alone: NEWS_API_KEY
    f_net,          \* fetch_headlines alone: what requests.get does
    f_out,          \* fetch_headlines alone: its outcome
    a_in,           \* analyze_with_claude alone: the payload the model answers with
    a_out           \* analyze_with_claude alone: per presentation, its outcome

serviceVars ==
    <<NEWS_API_KEY, api_key, pc, headlines, fetched, newsReply, newsCalls,
      analyzerCalls, modelCalls, response>>
fetchVars == <<f_key, f_net, f_out>>
analyzerVars == <<a_in, a_out>>
vars == <<serviceVars, fetchVars, analyzerVars>>

NoResponse == [status |-> 0, body |-> JNull, detail |-> <<>>]
FetchNotRun == [exc |-> "<not run>", headlines |-> <<>>, status_code |-> 0, detail |-> <<>>]
AnalyzerNotRun == [exc |-> "<not run>", value |-> JNull, status_code |-> 0, detail |-> <<>>]

ServiceIdle ==
    /\ pc = [r \in Requests |-> "idle"]
    /\ headlines = [r \in Requests |-> <<>>]
    /\ fetched = [r \in Requests |-> ""]
    /\ newsReply = [r \in Requests |-> ""]
    /\ newsCalls = [r \in Requests |-> 0]
    /\ analyzerCalls = [r \in Requests |-> 0]
    /\ modelCalls = [r \in Requests |-> 0]
    /\ response = [r \in Requests |-> NoResponse]

FetchIdle ==
    /\ f_key = "k"
    /\ f_net = NetworkFailure("Timeout")
    /\ f_out = FetchNotRun

AnalyzerIdle ==
    /\ a_in = [rendered |-> FALSE, value |-> JNull, text |-> <<>>]
    /\ a_out = [f \in Forms |-> AnalyzerNotRun]

(***************************************************************************)
(* The service: POST /analyze                                              *)
(***************************************************************************)
Init ==
    /\ NEWS_API_KEY \in {"", "k"}
    /\ api_key \in {"", "k"}
    /\ ServiceIdle
    /\ FetchIdle
    /\ AnalyzerIdle

\* The request ends with the response for outcome o.
Respond(r, o) ==
    /\ response' = [response EXCEPT ![r] = HttpResponse(RouteHandlers(o))]
    /\ pc' = [pc EXCEPT ![r] = "done"]

\* AfterFetch without the "if not headlines: return []" test.
AfterFetch_NoEmptyCheck(r, hs) ==
    /\ headlines' = [headlines EXCEPT ![r] = hs]
    /\ fetched' = [fetched EXCEPT ![r] = "returned"]
    /\ analyzerCalls' = [analyzerCalls EXCEPT ![r] = @ + 1]
    /\ IF api_key = ""
       THEN /\ Respond(r, Returned(SampleInsights))
            /\ UNCHANGED modelCalls
       ELSE /\ modelCalls' = [modelCalls EXCEPT ![r] = @ + 1]
            /\ pc' = [pc EXCEPT ![r] = "model_wait"]
            /\ UNCHANGED response

\* AfterFetch whose analyzer calls the model before it looks at the
\* credential.
AfterFetch_SampleCallsModel(r, hs) ==
    /\ headlines' = [headlines EXCEPT ![r] = hs]
    /\ fetched' = [fetched EXCEPT ![r] = "returned"]
    /\ IF hs = <<>>
       THEN /\ Respond(r, Returned(JArr(<<>>)))
            /\ UNCHANGED <<analyzerCalls, modelCalls>>
       ELSE /\ analyzerCalls' = [analyzerCalls EXCEPT ![r] = @ + 1]
            /\ modelCalls' = [modelCalls EXCEPT ![r] = @ + 1]
            /\ IF api_key = ""
               THEN Respond(r, Returned(SampleInsights))
               ELSE /\ pc' = [pc EXCEPT ![r] = "model_wait"]
                    /\ UNCHANGED response

\* Lines 178-184: analyze() once fetch_headlines returned hs, up to the
\* return or to the model call of analyze_with_claude (lines 91-123).
AfterFetch(r, hs) ==
    /\ headlines' = [headlines EXCEPT ![r] = hs]
    /\ fetched' = [fetched EXCEPT ![r] = "returned"]
    /\ IF hs = <<>>
       THEN /\ Respond(r, Returned(JArr(<<>>)))
            /\ UNCHANGED <<analyzerCalls, modelCalls>>
       ELSE /\ analyzerCalls' = [analyzerCalls EXCEPT ![r] = @ + 1]
            /\ IF api_key = ""
               THEN /\ Respond(r, Returned(SampleInsights))
                    /\ UNCHANGED modelCalls
               ELSE /\ modelCalls' = [modelCalls EXCEPT ![r] = @ + 1]
                    /\ pc' = [pc EXCEPT ![r] = "model_wait"]
                    /\ UNCHANGED response

\* A POST /analyze request arrives: analyze() calls fetch_headlines, which
\* returns the sample or issues the news API request (lines 42-66).
Receive(r) ==
    /\ pc[r] = "idle"
    /\ IF NEWS_API_KEY = ""
       THEN /\ AfterFetch(r, SampleHeadlines)
            /\ UNCHANGED <<newsCalls, newsReply>>
       ELSE /\ newsCalls' = [newsCalls EXCEPT ![r] = @ + 1]
            /\ pc' = [pc EXCEPT ![r] = "news_wait"]
            /\ UNCHANGED <<headlines, fetched, newsReply, analyzerCalls, modelCalls, response>>
    /\ UNCHANGED <<NEWS_API_KEY, api_key, fetchVars, analyzerVars>>

\* requests.get returns or raises: the rest of fetch_headlines (lines
\* 66-84), then analyze() continues.
NewsReply(r) ==
    /\ pc[r] = "news_wait"
    /\ \E net \in ServiceNewsOutcomes :
        LET f == fetch_live(net)
        IN  /\ newsReply' = [newsReply EXCEPT ![r] =
                                IF net.kind = "response" THEN ToString(net.status)
                                ELSE net.kind]
            /\ IF f.exc = ""
               THEN AfterFetch(r, f.headlines)
               ELSE /\ Respond(r, FetchFailure(f))
                    /\ fetched' = [fetched EXCEPT ![r] = "raised"]
                    /\ UNCHANGED <<headlines, analyzerCalls, modelCalls>>
    /\ UNCHANGED <<NEWS_API_KEY, api_key, newsCalls, fetchVars, analyzerVars>>

\* ModelReply that calls the model once more when the first call raised.
ModelReply_Retry(r) ==
    /\ pc[r] = "model_wait"
    /\ \E api \in ServiceApiOutcomes :
        IF api.raises /\ modelCalls[r] < 2
        THEN /\ modelCalls' = [modelCalls EXCEPT ![r] = @ + 1]
             /\ UNCHANGED <<pc, response>>
        ELSE /\ Respond(r, analyze_live(api))
             /\ UNCHANGED modelCalls
    /\ UNCHANGED <<NEWS_API_KEY, api_key, headlines, fetched, newsReply, newsCalls,
                   analyzerCalls, fetchVars, analyzerVars>>

\* anthropic.messages.create returns or raises: the rest of
\* analyze_with_claude (lines 137-159), then analyze() returns.
ModelReply(r) ==
    /\ pc[r] = "model_wait"
    /\ \E api \in ServiceApiOutcomes : Respond(r, analyze_live(api))
    /\ UNCHANGED <<NEWS_API_KEY, api_key, headlines, fetched, newsReply, newsCalls,
                   analyzerCalls, modelCalls, fetchVars, analyzerVars>>

Next == \E r \in Requests : Receive(r) \/ NewsReply(r) \/ ModelReply(r)

Spec == Init /\ [][Next]_vars

(***************************************************************************)
(* fetch_headlines alone, on every news API answer                         *)
(***************************************************************************)
\* fetch_headlines(), given the credential and what requests.get would do.
fetch_headlines(key, net) ==
    IF key = "" THEN FetchReturned(SampleHeadlines) ELSE fetch_live(net)

InitFetch ==
    /\ NEWS_API_KEY = "k" /\ api_key = "k"
    /\ ServiceIdle
    /\ AnalyzerIdle
    /\ f_key \in {"", "k"}
    /\ f_net \in NewsOutcomes
    /\ f_out = FetchNotRun

CallFetch ==
    /\ f_out = FetchNotRun
    /\ f_out' = fetch_headlines(f_key, f_net)
    /\ UNCHANGED <<serviceVars, analyzerVars, f_key, f_net>>

NextFetch == CallFetch

SpecFetch == InitFetch /\ [][NextFetch]_vars

(***************************************************************************)
(* analyze_with_claude alone, on every model answer, under the route       *)
(***************************************************************************)
\* analyze_with_claude(headlines), given the credential and what
\* messages.create would do.
analyze_with_claude(key, hs, api) ==
    IF key = "" THEN Returned(SampleInsights) ELSE analyze_live(api)

InitAnalyzer ==
    /\ NEWS_API_KEY = "k" /\ api_key = "k"
    /\ ServiceIdle
    /\ FetchIdle
    /\ a_in \in AnalyzerInputs
    /\ a_out = [f \in Forms |-> AnalyzerNotRun]

\* The model answers with the payload in presentation f; the outcome is
\* what analyze() lets through.
CallAnalyzer(f) ==
    /\ a_out[f] = AnalyzerNotRun
    /\ a_out' = [a_out EXCEPT ![f] =
                    RouteHandlers(analyze_with_claude(api_key, SampleHeadlines,
                        ApiMessage(<<TextBlock(Wrap(f, a_in.text))>>)))]
    /\ UNCHANGED <<serviceVars, fetchVars, a_in>>

NextAnalyzer == \E f \in Forms : CallAnalyzer(f)

SpecAnalyzer == InitAnalyzer /\ [][NextAnalyzer]_vars
(***************************************************************************)
(* Properties                                                              *)
(***************************************************************************)
Ok200(v) == [status |-> 200, body |-> v, detail |-> <<>>]

\* C1: a request whose fetch_headlines() returned an empty sequence has ended
\* with 200 and the empty array, and analyze_with_claude was never invoked
\* and no model call was issued for it, with the model credential set or not.
C1_EmptyFetchSkipsAnalyzer ==
    \A r \in Requests :
        (fetched[r] = "returned" /\ headlines[r] = <<>>) =>
            /\ pc[r] = "done"
            /\ response[r] = Ok200(JArr(<<>>))
            /\ analyzerCalls[r] = 0
            /\ modelCalls[r] = 0

C1_Witness ==
    \E r \in Requests :
        /\ api_key # ""
        /\ fetched[r] = "returned" /\ headlines[r] = <<>>
        /\ newsReply[r] = "200"
        /\ pc[r] = "done"

\* C2: with NEWS_API_KEY set and a successful response carrying a list of
\* articles (objects), fetch_headlines() returns exactly one Headline for
\* each of the first 15 articles that has a non-empty title and a non-empty
\* url, in the order of the response, and so at most 15 and never one from
\* beyond position 15; none qualifying gives an empty sequence, not an error.
C2_FirstPageQualifyingInOrder ==
    LET arts == f_net.articles
        n == Min(Len(arts), 15)
        Q == {i \in 1..n : /\ arts[i].title \notin {Absent, None, ""}
                           /\ arts[i].url \notin {Absent, None, ""}}
        Rank(i) == Cardinality({q \in Q : q <= i})
        hs == f_out.headlines
    IN  (/\ f_out # FetchNotRun
         /\ f_key # ""
         /\ f_net.kind = "response" /\ f_net.status = 200
         /\ f_net.body = "dict" /\ f_net.articlesIs = "list"
         /\ \A i \in 1..n : arts[i].isDict) =>
            /\ f_out.exc = ""
            /\ Len(hs) = Cardinality(Q)
            /\ Len(hs) <= 15
            /\ \A i \in Q : /\ hs[Rank(i)].title = arts[i].title
                            /\ hs[Rank(i)].url = arts[i].url

C2_Witness ==
    /\ f_out # FetchNotRun /\ f_out.exc = "" /\ f_key # ""
    /\ Len(f_net.articles) > 15
    /\ f_net.articles[16].isDict
    /\ f_net.articles[16].title = "t2" /\ f_net.articles[16].url = "u2"
    /\ f_net.articles[1].title = ""
    /\ Len(f_out.headlines) = 14

\* C3: for any JSON payload, the response text that is the payload itself,
\* the payload in a json fence and the payload in a generic fence give the
\* same outcome.
C3_SameInAllPresentations ==
    json_loads(a_in.text).ok =>
        \A f, g \in Forms :
            (a_out[f] # AnalyzerNotRun /\ a_out[g] # AnalyzerNotRun) =>
                a_out[f] = a_out[g]

\* C4: in live mode, when the response text parses to a JSON array of K
\* elements, the result is the first min(K, 5) of them in order; a response
\* that renders an array of K insights gives its first min(K, 5) in every
\* presentation.
C4_FirstFiveInOrder ==
    \A f \in Forms :
        a_out[f] # AnalyzerNotRun =>
            LET p == json_loads(ExtractJson(Strip(Wrap(f, a_in.text))))
                res == a_out[f]
            IN  /\ (p.ok /\ p.v.t = "arr") =>
                       /\ res.exc = ""
                       /\ res.value.t = "arr"
                       /\ Len(res.value.e) = Min(Len(p.v.e), 5)
                       /\ \A i \in 1..Len(res.value.e) : res.value.e[i] = p.v.e[i]
                /\ (/\ a_in.rendered /\ a_in.value.t = "arr"
                    /\ ~Contains(a_in.text, FENCE)) =>
                       /\ res.exc = ""
                       /\ res.value.t = "arr"
                       /\ Len(res.value.e) = Min(Len(a_in.value.e), 5)
                       /\ \A i \in 1..Len(res.value.e) : res.value.e[i] = a_in.value.e[i]

C4_Witness ==
    /\ a_in.rendered /\ a_in.value.t = "arr"
    /\ Len(a_in.value.e) = 6
    /\ a_in.value.e[1] = InsightA /\ a_in.value.e[5] = InsightB /\ a_in.value.e[6] = InsightA
    /\ a_out["json_fence"] # AnalyzerNotRun
    /\ a_out["json_fence"].exc = ""
    /\ Len(a_out["json_fence"].value.e) = 5
    /\ a_out["json_fence"].value.e[5] = InsightB

\* C5: every finished POST /analyze request ended with 200 and a JSON array
\* of at most 5 elements, or with 500 and a detail message, whatever text
\* the model answered with.
C5_ArrayOrError ==
    \A r \in Requests :
        pc[r] = "done" =>
            \/ /\ response[r].status = 200
               /\ response[r].body.t = "arr"
               /\ Len(response[r].body.e) <= 5
            \/ /\ response[r].status = 500
               /\ response[r].detail # <<>>

\* C6: with NEWS_API_KEY unset no news request is ever issued and every
\* fetch_headlines() call returns one and the same two-item sequence; with
\* ANTHROPIC_API_KEY unset no model call is ever issued and every
\* analyze_with_claude call returns one and the same one-item sequence,
\* whatever headlines it was given.
C6_SampleModeFixedAndOffline ==
    /\ NEWS_API_KEY = "" =>
          \A r, q \in Requests :
              /\ newsCalls[r] = 0
              /\ newsReply[r] = ""
              /\ fetched[r] # "" =>
                    /\ fetched[r] = "returned"
                    /\ Len(headlines[r]) = 2
                    /\ fetched[q] # "" => headlines[q] = headlines[r]
    /\ api_key = "" =>
          \A r, q \in Requests :
              /\ modelCalls[r] = 0
              /\ analyzerCalls[r] > 0 =>
                    /\ pc[r] = "done"
                    /\ response[r].status = 200
                    /\ response[r].body.t = "arr"
                    /\ Len(response[r].body.e) = 1
                    /\ analyzerCalls[q] > 0 => response[q] = response[r]

C6_Witness ==
    /\ NEWS_API_KEY = "" /\ api_key = ""
    /\ \A r \in Requests : pc[r] = "done" /\ analyzerCalls[r] = 1

\* C7: with NEWS_API_KEY set, a request whose news API request raised, timed
\* out or came back with an error status has ended with 500 and a detail
\* message, without any analyzer invocation or model call, and with no
\* insights in the response.
C7_NewsFailureFailsRequest ==
    \A r \in Requests :
        (NEWS_API_KEY # "" /\ newsReply[r] \in {"ConnectionError", "Timeout", "404", "500"}) =>
            /\ pc[r] = "done"
            /\ response[r].status = 500
            /\ Len(response[r].detail) = 2
            /\ response[r].detail[1] = "Failed to fetch headlines: "
            /\ response[r].body = JNull
            /\ analyzerCalls[r] = 0
            /\ modelCalls[r] = 0

C7_Witness ==
    \E r, q \in Requests :
        /\ newsReply[r] = "500" /\ pc[r] = "done"
        /\ newsReply[q] = "Timeout" /\ pc[q] = "done"

\* C8: in live mode, when the response text after unwrapping is not valid
\* JSON, the outcome of the route is the analyzer's own HTTPException: status
\* 500, detail "Failed to parse Claude response as JSON: " followed by the
\* decode message, and no insights.
C8_ParseErrorIs500 ==
    \A f \in Forms :
        a_out[f] # AnalyzerNotRun =>
            LET p == json_loads(ExtractJson(Strip(Wrap(f, a_in.text))))
            IN  ~p.ok =>
                    /\ a_out[f].exc = "HTTPException"
                    /\ a_out[f].status_code = 500
                    /\ a_out[f].detail = <<"Failed to parse Claude response as JSON: ", p.msg>>
                    /\ a_out[f].value = JNull

C8_Witness ==
    /\ a_in.text = <<"[", "1", ",", "]">>
    /\ a_out["generic_fence"] # AnalyzerNotRun
    /\ a_out["generic_fence"].status_code = 500
    /\ a_out["generic_fence"].detail[2] = "Expecting value"

\* C9: every Headline fetch_headlines() returns has a string description,
\* the empty string when the article's description is absent or null.
C9_DescriptionIsString ==
    (f_out # FetchNotRun /\ f_out.exc = "") =>
        \A j \in 1..Len(f_out.headlines) :
            f_out.headlines[j].description \notin {None, Absent}

\* C10 as stated: at most one news call and one model call per request, and
\* a model call only after the request's own news call completed
\* successfully with a non-empty headline sequence.
C10_ModelCallOnlyAfterNewsCall ==
    \A r \in Requests :
        /\ newsCalls[r] <= 1
        /\ modelCalls[r] <= 1
        /\ modelCalls[r] > 0 =>
              /\ newsCalls[r] = 1
              /\ newsReply[r] = "200"
              /\ fetched[r] = "returned"
              /\ headlines[r] # <<>>

\* C10 amended: at most one news call and one model call per request, in
\* every interleaving; a model call only after the request's own
\* fetch_headlines() returned a non-empty sequence, which comes from its own
\* successful news call when NEWS_API_KEY is set and from the fixed sample,
\* with no news call, when it is unset.
C10_ModelCallOnlyAfterFetch ==
    \A r \in Requests :
        /\ newsCalls[r] <= 1
        /\ modelCalls[r] <= 1
        /\ pc[r] = "news_wait" => modelCalls[r] = 0
        /\ modelCalls[r] > 0 =>
              /\ fetched[r] = "returned"
              /\ headlines[r] # <<>>
              /\ NEWS_API_KEY # "" => (newsCalls[r] = 1 /\ newsReply[r] = "200")
              /\ NEWS_API_KEY = "" => (newsCalls[r] = 0 /\ newsReply[r] = "")

C10_Witness ==
    \E r, q \in Requests :
        /\ NEWS_API_KEY # ""
        /\ pc[r] = "model_wait" /\ modelCalls[r] = 1 /\ newsCalls[r] = 1
        /\ pc[q] = "news_wait" /\ newsCalls[q] = 1
====
